---- MODULE Spec2Model ----
(***************************************************************************)
(* Model of the lyrics pipeline of sing_along:                             *)
(*   src/song_parser/parse_lyrics.py          (program "parse_lyrics")     *)
(*   src/_python/song_lyrics/simple_whisper_parser.py ("simple_whisper")   *)
(*                                                                         *)
(* Conventions.                                                            *)
(*  - A text is a sequence of characters, each character a string; the     *)
(*    two dash characters of simple_whisper_parser.py:167 are written      *)
(*    "emdash" and "endash".                                               *)
(*  - Times are fixed-point integers in ticks of 1/10000 second, so that   *)
(*    round(x, 2) and round(x, 3) both change values. 0.5 s = 5000.        *)
(*  - Confidences are integers in hundredths: 0.85 = 85.                   *)
(*  - Python indices are 0-based, the sequences here are 1-based.          *)
(*  - A token is a record with the fields the transcription gave it; a     *)
(*    field the record lacks is a key the Python dict lacks.               *)
(***************************************************************************)
EXTENDS Integers, Sequences, FiniteSets, TLC

VARIABLES
    prog,           \* the program that is running
    pc,             \* its position
    words,          \* the token records handed over by the transcription
    total_duration, \* parse_lyrics: the total_duration argument / result["duration"]
    segment_ends,   \* simple_whisper: the 'end' of each of result['segments']
    lyrics_data,    \* the value built from the tokens (document, None or exception)
    output_file,    \* the path chosen for the document
    files,          \* the directory: path -> content
    clock,          \* the wall clock, in half seconds
    exit_code,      \* the exit code of the run that ended, -1 while running
    runs,           \* the runs started so far
    child           \* the transcription child process of parse_lyrics

vars == <<prog, pc, words, total_duration, segment_ends, lyrics_data,
          output_file, files, clock, exit_code, runs, child>>

----------------------------------------------------------------------------
(* Bounds of the model *)

\* the longest token sequence of the general inputs
MaxLen == 3
\* the longest run of plain tokens (no punctuation, no pause)
MaxLong == 25
\* the runs of one behaviour of SpecMain
MaxRuns == 3
\* the last clock value of SpecMain, in half seconds
MaxClock == 4

----------------------------------------------------------------------------
(* Characters and texts *)

LowerCase == <<"a","b","c","d","e","f","g","h","i","j","k","l","m",
               "n","o","p","q","r","s","t","u","v","w","x","y","z">>
UpperCase == <<"A","B","C","D","E","F","G","H","I","J","K","L","M",
               "N","O","P","Q","R","S","T","U","V","W","X","Y","Z">>

Range(s) == {s[i] : i \in DOMAIN s}

\* str.strip() with no argument strips whitespace
Whitespace == {" ", "\t", "\n", "\r"}

\* the argument of the second strip of clean_word
StripPunctuation == {".", ",", "!", "?", ";", ":", "\"", "(", ")", "[", "]", "{", "}"}

RECURSIVE lstrip(_, _)
lstrip(s, chars) ==
    IF s = <<>> \/ Head(s) \notin chars THEN s ELSE lstrip(Tail(s), chars)

RECURSIVE rstrip(_, _)
rstrip(s, chars) ==
    IF s = <<>> \/ s[Len(s)] \notin chars THEN s
    ELSE rstrip(SubSeq(s, 1, Len(s) - 1), chars)

strip(s, chars) == rstrip(lstrip(s, chars), chars)

lower_char(c) ==
    IF \E i \in DOMAIN UpperCase : UpperCase[i] = c
    THEN LowerCase[CHOOSE i \in DOMAIN UpperCase : UpperCase[i] = c]
    ELSE c

lower(s) == [i \in DOMAIN s |-> lower_char(s[i])]

isalpha(s) == s # <<>> /\ \A i \in DOMAIN s : s[i] \in Range(LowerCase) \cup Range(UpperCase)

\* " ".join(parts)
RECURSIVE join(_)
join(parts) ==
    IF parts = <<>> THEN <<>>
    ELSE IF Len(parts) = 1 THEN parts[1]
    ELSE parts[1] \o <<" ">> \o join(Tail(parts))

----------------------------------------------------------------------------
(* Numbers *)

Max(a, b) == IF a >= b THEN a ELSE b

\* round to the nearest multiple of unit, a tie to the even multiple
RoundTo(x, unit) ==
    LET q == x \div unit
        r == x % unit
    IN  IF 2 * r < unit THEN q * unit
        ELSE IF 2 * r > unit THEN (q + 1) * unit
        ELSE IF q % 2 = 0 THEN q * unit ELSE (q + 1) * unit

\* round(x, 2): hundredths of a second are 100 ticks
round2(x) == RoundTo(x, 100)

\* round(x, 3): thousandths of a second are 10 ticks
round3(x) == RoundTo(x, 10)

----------------------------------------------------------------------------
(* parse_lyrics.py: the pure functions *)

\* the word with only the first strip applied
clean_word_once(word) == strip(word, Whitespace)

clean_word(word) == strip(strip(word, Whitespace), StripPunctuation)

\* re.search(r'[.!?]', word['word'])
SentencePunctuation == {".", "!", "?"}
has_sentence_punctuation(word) == \E i \in DOMAIN word : word[i] \in SentencePunctuation

\* gap > 0.5
PauseThreshold == 5000
long_pause(gap) == gap > PauseThreshold

\* the condition under which index i is appended in the loop of detect_sentence_breaks
is_break(ws, i) ==
    \/ has_sentence_punctuation(ws[i].word)
    \/ /\ i < Len(ws)
       /\ long_pause(ws[i + 1].start - ws[i].end)

RECURSIVE breaks_upto(_, _)
breaks_upto(ws, n) ==
    IF n = 0 THEN <<>>
    ELSE LET before == breaks_upto(ws, n - 1)
         IN  IF is_break(ws, n) THEN Append(before, n) ELSE before

\* detect_sentence_breaks without "Ensure we end with the last word"
detect_sentence_breaks_open(ws) == breaks_upto(ws, Len(ws))

detect_sentence_breaks(ws) ==
    LET sentence_breaks == breaks_upto(ws, Len(ws))
    IN  IF Len(ws) > 0 /\ (Len(sentence_breaks) = 0
                           \/ sentence_breaks[Len(sentence_breaks)] # Len(ws))
        THEN Append(sentence_breaks, Len(ws))
        ELSE sentence_breaks

\* the lookups of detect_sentence_breaks that raise KeyError
detect_raises(ws) ==
    \E i \in 1..Len(ws) - 1 :
        /\ ~has_sentence_punctuation(ws[i].word)
        /\ ("start" \notin DOMAIN ws[i + 1] \/ "end" \notin DOMAIN ws[i])

MinConfidence == 85
MinLength == 4
FillerWords == { <<"t","h","e">>, <<"a","n","d">>, <<"o","r">>, <<"b","u","t">>,
                 <<"i","n">>, <<"o","n">>, <<"a","t">>, <<"t","o">>, <<"f","o","r">>,
                 <<"o","f">>, <<"w","i","t","h">>, <<"b","y">> }

\* word.get('confidence', 0.0)
confidence_of(word) == IF "confidence" \in DOMAIN word THEN word.confidence ELSE 0

\* the confidence test with > for >=
confident_strict(confidence) == confidence > MinConfidence

confident(confidence) == confidence >= MinConfidence

is_target_candidate(word) ==
    LET clean_text == clean_word(word.word)
    IN  /\ confident(confidence_of(word))
        /\ Len(clean_text) >= MinLength
        /\ lower(clean_text) \notin FillerWords
        /\ isalpha(clean_text)

RECURSIVE identify_target_words(_)
identify_target_words(ws) ==
    IF ws = <<>> THEN <<>>
    ELSE LET rest == identify_target_words(SubSeq(ws, 1, Len(ws) - 1))
             word == ws[Len(ws)]
         IN  IF is_target_candidate(word) THEN Append(rest, word) ELSE rest

target_word_texts(ws) ==
    {lower(clean_word(tw.word)) : tw \in Range(identify_target_words(ws))}

\* the membership test without lower()
is_target_exact(clean_text, texts) == clean_text \in texts

is_target(clean_text, texts) == lower(clean_text) \in texts

\* Path(filename).stem, a path being a record of directory, stem and suffix
stem(filename) == filename.stem

\* the audio file every run is given
AudioFile == [dir |-> "songs", stem |-> "song", suffix |-> ".mp3"]

\* the tokens of words[lo..hi], none of them skipped
sentence_tokens_all(ws, lo, hi) ==
    IF lo > hi \/ lo > Len(ws) THEN <<>> ELSE SubSeq(ws, lo, IF hi > Len(ws) THEN Len(ws) ELSE hi)

\* the tokens of words[lo..hi] that pass "if not clean_text: continue"
RECURSIVE sentence_tokens(_, _, _)
sentence_tokens(ws, lo, hi) ==
    IF lo > hi \/ lo > Len(ws) THEN <<>>
    ELSE (IF clean_word(ws[lo].word) # <<>> THEN <<ws[lo]>> ELSE <<>>)
         \o sentence_tokens(ws, lo + 1, hi)

\* the entry with its end time coerced up to its start time
word_entry_coerced(word, texts) ==
    LET clean_text == clean_word(word.word)
    IN  [text |-> clean_text,
         start_time |-> round2(word.start),
         end_time |-> Max(round2(word.start), round2(word.end)),
         target_word |-> is_target(clean_text, texts)]

\* the dict appended to sentence_words
word_entry(word, texts) ==
    LET clean_text == clean_word(word.word)
    IN  [text |-> clean_text,
         start_time |-> round2(word.start),
         end_time |-> round2(word.end),
         target_word |-> is_target(clean_text, texts)]

\* the dict with the text joined from the words as transcribed
full_sentence_entry_raw(toks) ==
    LET sentence_start_time == toks[1].start
        sentence_end_time == toks[Len(toks)].end
    IN  [text |-> join([i \in DOMAIN toks |-> toks[i].word]),
         start_time |-> round2(sentence_start_time),
         end_time |-> round2(sentence_end_time),
         duration |-> round2(sentence_end_time - sentence_start_time)]

\* the dict with the end time of the sentence as the token gives it
full_sentence_entry_exact(toks) ==
    LET sentence_start_time == toks[1].start
        sentence_end_time == toks[Len(toks)].end
    IN  [text |-> join([i \in DOMAIN toks |-> clean_word(toks[i].word)]),
         start_time |-> round2(sentence_start_time),
         end_time |-> sentence_end_time,
         duration |-> round2(sentence_end_time - sentence_start_time)]

\* the dict appended to full_sentences for the surviving tokens of one range
full_sentence_entry(toks) ==
    LET sentence_start_time == toks[1].start
        sentence_end_time == toks[Len(toks)].end
    IN  [text |-> join([i \in DOMAIN toks |-> clean_word(toks[i].word)]),
         start_time |-> round2(sentence_start_time),
         end_time |-> round2(sentence_end_time),
         duration |-> round2(sentence_end_time - sentence_start_time)]

\* the loop over sentence_breaks, after its first k iterations
RECURSIVE build_sentences(_, _, _, _)
build_sentences(ws, sentence_breaks, k, texts) ==
    IF k = 0 THEN [sentences |-> <<>>, full_sentences |-> <<>>]
    ELSE LET before == build_sentences(ws, sentence_breaks, k - 1, texts)
             sentence_start == IF k = 1 THEN 1 ELSE sentence_breaks[k - 1] + 1
             toks == sentence_tokens(ws, sentence_start, sentence_breaks[k])
         IN  IF toks = <<>> THEN before
             ELSE [sentences |-> Append(before.sentences,
                        [image |-> "None",
                         words |-> [i \in DOMAIN toks |-> word_entry(toks[i], texts)]]),
                   full_sentences |-> Append(before.full_sentences,
                        full_sentence_entry(toks))]

\* the lookups of the loop over the words that raise KeyError
build_raises(ws) ==
    \E i \in DOMAIN ws :
        /\ clean_word(ws[i].word) # <<>>
        /\ ("start" \notin DOMAIN ws[i] \/ "end" \notin DOMAIN ws[i])

\* outro = 3.0  # default fallback
DefaultOutro == 30000

\* lines 158-160: the start of the first sentence, 0.0 with no sentence
offset_of(full_sentences) ==
    IF Len(full_sentences) > 0 THEN full_sentences[1].start_time ELSE 0

\* the outro computed against 0 when there is no sentence
outro_of_empty(full_sentences, duration) ==
    IF duration > 0
    THEN Max(0, duration - (IF Len(full_sentences) > 0
                            THEN full_sentences[Len(full_sentences)].end_time ELSE 0))
    ELSE DefaultOutro

\* the outro computed also when total_duration is 0
outro_of_always(full_sentences, duration) ==
    IF Len(full_sentences) > 0
    THEN Max(0, duration - full_sentences[Len(full_sentences)].end_time)
    ELSE DefaultOutro

\* lines 163-166: the time from the end of the last sentence to total_duration
outro_of(full_sentences, duration) ==
    IF Len(full_sentences) > 0 /\ duration > 0
    THEN Max(0, duration - full_sentences[Len(full_sentences)].end_time)
    ELSE DefaultOutro

None == [kind |-> "None"]
KeyError == [kind |-> "KeyError"]

words_to_lyrics_data(ws, filename, duration) ==
    IF ws = <<>> THEN None
    ELSE IF detect_raises(ws) \/ build_raises(ws) THEN KeyError
    ELSE LET sentence_breaks == detect_sentence_breaks(ws)
             built == build_sentences(ws, sentence_breaks, Len(sentence_breaks),
                                      target_word_texts(ws))
             full_sentences == built.full_sentences
             base_name == stem(filename)
             offset == offset_of(full_sentences)
             outro == outro_of(full_sentences, duration)
         IN  [kind |-> "document",
              offset |-> round2(offset),
              outro |-> round2(outro),
              song_source |-> <<base_name, ".mp3">>,
              music_source |-> <<base_name, "-instrumental.mp3">>,
              full_sentence |-> full_sentences,
              sentences |-> built.sentences]

----------------------------------------------------------------------------
(* simple_whisper_parser.py: lines 127-203 of main *)

\* re.search(r'[.!?,:;]$', word_text)
BreakPunctuation == {".", "!", "?", ",", ":", ";"}
ends_with_punctuation(word_text) == word_text[Len(word_text)] \in BreakPunctuation

\* re.search(r'\n|emdash|endash', word_text)
PhraseEndings == {"\n", "emdash", "endash"}
has_phrase_ending(word_text) == \E i \in DOMAIN word_text : word_text[i] \in PhraseEndings

\* ... > 0.4
ShortPauseThreshold == 4000
short_pause(gap) == gap > ShortPauseThreshold

\* the length break taken one word late
sentence_full_late(current_sentence) == Len(current_sentence) > 12

\* len(current_sentence) >= 12
MaxSentenceWords == 12
sentence_full(current_sentence) == Len(current_sentence) >= MaxSentenceWords

\* all_words.index(word_data): the first position holding an equal record
index(all_words, word_data) ==
    CHOOSE i \in DOMAIN all_words :
        /\ all_words[i] = word_data
        /\ \A j \in 1..i - 1 : all_words[j] # word_data

\* one iteration of "for word_data in all_words", on the k-th record
loop_step(acc, all_words, k) ==
    LET word_data == all_words[k]
        word_text == strip(word_data.word, Whitespace)
    IN  IF acc.raised \/ word_text = <<>> THEN acc
        ELSE IF "start" \notin DOMAIN word_data \/ "end" \notin DOMAIN word_data
        THEN [acc EXCEPT !.raised = TRUE]
        ELSE
        LET word_entry_ == [text |-> word_text,
                            start_time |-> round3(word_data.start),
                            end_time |-> round3(word_data.end),
                            target_word |-> FALSE]
            current_sentence == Append(acc.current_sentence, word_entry_)
            here == index(all_words, word_data)
            punctuation == ends_with_punctuation(word_text)
            has_next == ~punctuation /\ Len(current_sentence) > 0
                        /\ Len(all_words) > here
            pause == has_next /\ "start" \in DOMAIN all_words[here + 1]
                     /\ short_pause(all_words[here + 1].start - word_data.end)
            should_break ==
                \/ punctuation
                \/ pause
                \/ sentence_full(current_sentence)
                \/ has_phrase_ending(word_text)
        IN  IF has_next /\ "start" \notin DOMAIN all_words[here + 1]
            THEN [acc EXCEPT !.raised = TRUE]
            ELSE IF should_break
            THEN [acc EXCEPT !.sentences = Append(@, [words |-> current_sentence]),
                             !.current_sentence = <<>>]
            ELSE [acc EXCEPT !.current_sentence = current_sentence]

RECURSIVE segmentation_loop(_, _)
segmentation_loop(all_words, k) ==
    IF k = 0 THEN [sentences |-> <<>>, current_sentence |-> <<>>, raised |-> FALSE]
    ELSE loop_step(segmentation_loop(all_words, k - 1), all_words, k)

RECURSIVE max_of(_)
max_of(s) == IF Len(s) = 1 THEN s[1] ELSE Max(s[1], max_of(Tail(s)))

\* lines 127-203: the value of lyrics_data, or the KeyError that ends the run
simple_lyrics_data(all_words, ends, now) ==
    LET looped == segmentation_loop(all_words, Len(all_words))
        sentences == IF looped.current_sentence # <<>>
                     THEN Append(looped.sentences, [words |-> looped.current_sentence])
                     ELSE looped.sentences
        last_words == sentences[Len(sentences)].words
        last_word_end == IF sentences # <<>> /\ last_words # <<>>
                         THEN last_words[Len(last_words)].end_time ELSE 0
        duration == IF ends # <<>> THEN max_of(ends) ELSE last_word_end
        outro_time == Max(0, duration - last_word_end)
    IN  IF looped.raised THEN KeyError
        ELSE [kind |-> "document",
              outro |-> round2(outro_time),
              generated_timestamp |-> now,
              sentences |-> sentences]

----------------------------------------------------------------------------
(* The token records the transcription may hand over *)

Token(word, start, end) == [word |-> word, start |-> start, end |-> end]
Scored(word, start, end, confidence) ==
    [word |-> word, start |-> start, end |-> end, confidence |-> confidence]

TokenPool == {
    Token(<<" ","s","o","n","g">>, 0, 3000),
    Token(<<" ","s","o","n","g">>, 7449, 12000),
    Token(<<" ","s","o","n","g">>, 15000, 18000),
    Scored(<<" ","l","o","v","e">>, 0, 3000, 85),
    Scored(<<"L","o","v","e",".">>, 3000, 7449, 10),
    Scored(<<"w","i","t","h">>, 7449, 12000, 90),
    Token(<<".">>, 3000, 7449),
    Token(<<" ">>, 15000, 18000),
    Scored(<<"o","k",",">>, 0, 3000, 90),
    Scored(<<"a",".","m">>, 3000, 7449, 90),
    Scored(<<"r","2","d","2">>, 7449, 12000, 90),
    Token(<<"h","i"," ",".">>, 15000, 18000),
    Token(<<"a","emdash","b">>, 0, 3000),
    Scored(<<" ","s","o","n","g">>, 18000, 15000, 90),
    [word |-> <<" ","s","o","n","g">>, start |-> 0] }

\* n plain tokens, each starting where the one before it ends
LongInput(n) == [i \in 1..n |-> Token(<<" ","s","o","n","g">>, 3000 * (i - 1), 3000 * i)]

Inputs ==
    UNION {[1..n -> TokenPool] : n \in 0..MaxLen}
    \cup {LongInput(n) : n \in (MaxLen + 1)..MaxLong}

\* the values of total_duration, and of the 'end' of a segment
Durations == {0, 3000, 20051}

ParseLyricsRuns == prog = "parse_lyrics"
SimpleWhisperRuns == prog = "simple_whisper"

NoFile == [name |-> "none"]
Unset == [kind |-> "unset"]

----------------------------------------------------------------------------
(* The conversion steps of the two programs *)

\* parse_lyrics.py main, lines 355-360 and the except clause of lines 380-382
Convert ==
    /\ ParseLyricsRuns
    /\ pc = "chosen"
    /\ lyrics_data' = words_to_lyrics_data(words, AudioFile, total_duration)
    /\ IF lyrics_data'.kind = "KeyError"
       THEN pc' = "done" /\ exit_code' = 1
       ELSE pc' = "converted" /\ exit_code' = exit_code
    /\ UNCHANGED <<prog, words, total_duration, segment_ends, output_file,
                   files, clock, runs, child>>

\* simple_whisper_parser.py main, lines 127-203; an uncaught KeyError ends the run
Process ==
    /\ SimpleWhisperRuns
    /\ pc = "transcribed"
    /\ lyrics_data' = simple_lyrics_data(words, segment_ends, clock)
    /\ IF lyrics_data'.kind = "KeyError"
       THEN pc' = "done" /\ exit_code' = 1
       ELSE pc' = "processed" /\ exit_code' = exit_code
    /\ UNCHANGED <<prog, words, total_duration, segment_ends, output_file,
                   files, clock, runs, child>>

\* The two conversions on every input: words_to_lyrics_data is called with any
\* total_duration, the loop of simple_whisper_parser runs on any segments.
Init ==
    /\ words \in Inputs
    /\ \/ /\ prog = "parse_lyrics"
          /\ pc = "chosen"
          /\ total_duration \in Durations
          /\ segment_ends = <<>>
       \/ /\ prog = "simple_whisper"
          /\ pc = "transcribed"
          /\ total_duration = 0
          /\ segment_ends \in {<<d>> : d \in Durations \ {0}} \cup {<<3000, 20100>>}
                              \cup (IF words = <<>> THEN {<<>>} ELSE {})
    /\ lyrics_data = Unset
    /\ output_file = NoFile
    /\ files = <<>>
    /\ clock = 0
    /\ exit_code = -1
    /\ runs = 1
    /\ child = "none"

Next == Convert \/ Process

Spec == Init /\ [][Next]_vars

----------------------------------------------------------------------------
(* The runs of the two programs in one directory *)

\* source_dir / "lyrics-data.js" is number 0, source_dir / f"lyrics-data({n}).js" is n
NumberedPath(n) == [name |-> "lyrics-data", number |-> n]

\* Path(f"lyrics_data_{timestamp}.js"), timestamp = strftime("%Y%m%d_%H%M%S")
StampedPath(second) == [name |-> "lyrics_data", stamp |-> second]

\* the clock counts half seconds; strftime with %S cuts it to the second
strftime(now) == now \div 2

\* the path taken without looking at the directory
choose_output_file_fixed(existing) == NumberedPath(0)

\* lines 349-353: the while loop over counter
RECURSIVE first_free(_, _)
first_free(existing, counter) ==
    IF NumberedPath(counter) \in existing
    THEN first_free(existing, counter + 1)
    ELSE NumberedPath(counter)

choose_output_file(existing) == first_free(existing, 0)

\* open(output_file, 'w') and f.write(content)
write(directory, path, content) ==
    [q \in DOMAIN directory \cup {path} |->
        IF q = path THEN content ELSE directory[q]]

\* js_content of save_lyrics_data_js: the data and the stem of the output file
js_content(data, path) == [generated_from |-> path, data |-> data]

\* the token sequences a transcription returns in these runs
MainInputs == {
    <<>>,
    << Token(<<" ">>, 15000, 18000) >>,
    << Token(<<".">>, 3000, 7449) >>,
    << Scored(<<" ","l","o","v","e">>, 0, 3000, 85) >>,
    << [word |-> <<" ","s","o","n","g">>, end |-> 3000] >>,
    << [word |-> <<" ","s","o","n","g">>, start |-> 0] >> }

\* a run of either program begins
Start ==
    /\ pc \in {"idle", "done"}
    /\ runs < MaxRuns
    /\ runs' = runs + 1
    /\ prog' \in {"parse_lyrics", "simple_whisper"}
    /\ pc' = "started"
    /\ exit_code' = -1
    /\ words' = <<>>
    /\ total_duration' = 0
    /\ segment_ends' = <<>>
    /\ lyrics_data' = Unset
    /\ output_file' = NoFile
    /\ UNCHANGED <<files, clock, child>>

\* parse_lyrics.py 336-338, simple_whisper_parser.py 54-56: no such input file
InputMissing ==
    /\ pc = "started"
    /\ pc' = "done"
    /\ exit_code' = 1
    /\ UNCHANGED <<prog, words, total_duration, segment_ends, lyrics_data,
                   output_file, files, clock, runs, child>>

\* transcribe_to_json raises (lines 273, 280), caught at lines 380-382
TranscriptionError ==
    /\ ParseLyricsRuns
    /\ pc = "started"
    /\ clock < MaxClock
    /\ clock' = clock + 1
    /\ pc' = "done"
    /\ exit_code' = 1
    /\ UNCHANGED <<prog, words, total_duration, segment_ends, lyrics_data,
                   output_file, files, runs, child>>

\* lines 297-299: the largest 'end' of the words, 0.0 without words
duration_of(ws) == IF ws = <<>> THEN 0 ELSE max_of([i \in DOMAIN ws |-> ws[i].end])

\* transcribe_to_json returns (lines 290-306); a word without 'end' raises KeyError.
\* The return is taken as given here; the loop before it is SpecMonitor's subject
Transcribe ==
    /\ ParseLyricsRuns
    /\ pc = "started"
    /\ clock < MaxClock
    /\ clock' = clock + 1
    /\ \E ws \in MainInputs :
          /\ words' = ws
          /\ IF \E i \in DOMAIN ws : "end" \notin DOMAIN ws[i]
             THEN pc' = "done" /\ exit_code' = 1 /\ total_duration' = total_duration
             ELSE pc' = "transcribed" /\ exit_code' = exit_code
                  /\ total_duration' = duration_of(ws)
    /\ UNCHANGED <<prog, segment_ends, lyrics_data, output_file, files, runs, child>>

\* lines 344-353
ChooseOutput ==
    /\ ParseLyricsRuns
    /\ pc = "transcribed"
    /\ output_file' = choose_output_file(DOMAIN files)
    /\ pc' = "chosen"
    /\ UNCHANGED <<prog, words, total_duration, segment_ends, lyrics_data,
                   files, clock, exit_code, runs, child>>

\* lines 362-375: save_lyrics_data_js and the summary
Save ==
    /\ ParseLyricsRuns
    /\ pc = "converted"
    /\ lyrics_data # None
    /\ files' = write(files, output_file, js_content(lyrics_data, output_file))
    /\ pc' = "done"
    /\ exit_code' = 0
    /\ UNCHANGED <<prog, words, total_duration, segment_ends, lyrics_data,
                   output_file, clock, runs, child>>

\* the else branch without sys.exit(1)
NoWords_silent ==
    /\ ParseLyricsRuns
    /\ pc = "converted"
    /\ lyrics_data = None
    /\ pc' = "done"
    /\ exit_code' = 0
    /\ UNCHANGED <<prog, words, total_duration, segment_ends, lyrics_data,
                   output_file, files, clock, runs, child>>

\* lines 376-378: "Error: No words found in transcription", sys.exit(1)
NoWords ==
    /\ ParseLyricsRuns
    /\ pc = "converted"
    /\ lyrics_data = None
    /\ pc' = "done"
    /\ exit_code' = 1
    /\ UNCHANGED <<prog, words, total_duration, segment_ends, lyrics_data,
                   output_file, files, clock, runs, child>>

\* simple_whisper_parser.py 78-109: the transcription and the extraction of words
TranscribeSimple ==
    /\ SimpleWhisperRuns
    /\ pc = "started"
    /\ clock < MaxClock
    /\ clock' = clock + 1
    /\ \E ws \in MainInputs :
          /\ words' = ws
          /\ segment_ends' \in {<<3000>>, <<20051>>} \cup (IF ws = <<>> THEN {<<>>} ELSE {})
    /\ pc' = "transcribed"
    /\ UNCHANGED <<prog, total_duration, lyrics_data, output_file, files,
                   exit_code, runs, child>>

\* lines 205-253: the file is opened with 'w' under the name of the current second
SaveSimple ==
    /\ SimpleWhisperRuns
    /\ pc = "processed"
    /\ \E now \in {clock, clock + 1} :
          /\ now <= MaxClock
          /\ clock' = now
          /\ output_file' = StampedPath(strftime(now))
    /\ files' = write(files, output_file', js_content(lyrics_data, NoFile))
    /\ pc' = "done"
    /\ exit_code' = 0
    /\ UNCHANGED <<prog, words, total_duration, segment_ends, lyrics_data, runs, child>>

InitMain ==
    /\ prog = "none"
    /\ pc = "idle"
    /\ words = <<>>
    /\ total_duration = 0
    /\ segment_ends = <<>>
    /\ lyrics_data = Unset
    /\ output_file = NoFile
    /\ files = <<>>
    /\ clock = 0
    /\ exit_code = -1
    /\ runs = 0
    /\ child = "none"

NextMain ==
    \/ Start
    \/ InputMissing
    \/ TranscriptionError
    \/ Transcribe
    \/ ChooseOutput
    \/ Convert
    \/ Save
    \/ NoWords
    \/ TranscribeSimple
    \/ Process
    \/ SaveSimple

SpecMain == InitMain /\ [][NextMain]_vars

----------------------------------------------------------------------------
(* transcribe_to_json of parse_lyrics.py: the child process and the loop
   that watches its progress file.  A file's text is a sequence of pieces:
   a word of the text, or one character *)

\* lines 197, 198, 238: the three files beside the audio file
progress_file_path == [name |-> ".transcription_progress", stem |-> stem(AudioFile)]
result_file_path == [name |-> ".transcription_result", stem |-> stem(AudioFile)]
temp_script == [name |-> "temp_transcribe", stem |-> stem(AudioFile)]

\* what the child writes: the f-string of lines 201-235 turns \\n into \n,
\* so the script's literals hold a newline
Loading == <<"LOADING", "\n", "Loading Whisper model (tiny - more stable)...">>
Processing == <<"PROCESSING", "\n", "Transcribing audio...">>
Completed == <<"COMPLETED", "\n", "Transcription completed successfully!">>
ErrorText(message) == <<"ERROR", "\n">> \o message

\* str(e) of the exception the child caught: empty, or some text
Messages == {<<>>, <<"No such file">>}

\* line 264: the argument '\\n' of split, a backslash and the letter n
Separator == <<"\\", "n">>

at(s, sep, i) == SubSeq(s, i, i + Len(sep) - 1) = sep

\* str.split(sep): the pieces between the occurrences of sep, left to right
RECURSIVE split(_, _)
split(s, sep) ==
    LET found == {i \in 1..(Len(s) - Len(sep) + 1) : at(s, sep, i)}
    IN  IF found = {} THEN <<s>>
        ELSE LET i == CHOOSE i \in found : \A j \in found : i <= j
             IN  <<SubSeq(s, 1, i - 1)>> \o split(SubSeq(s, i + Len(sep), Len(s)), sep)

\* lines 264-265: status = f.read().strip().split('\\n')[0]
status_of(content) == split(strip(content, Whitespace), Separator)[1]

\* Path.unlink of each of the paths
unlink(directory, paths) == [q \in DOMAIN directory \ paths |-> directory[q]]

\* a run of parse_lyrics begins
StartParseLyrics == Start /\ prog' = "parse_lyrics"

\* lines 196-252: the script is written and the child is started
StartTranscription ==
    /\ ParseLyricsRuns
    /\ pc = "started"
    /\ files' = write(files, temp_script, <<"script">>)
    /\ child' = "spawned"
    /\ pc' = "sleeping"
    /\ UNCHANGED <<prog, words, total_duration, segment_ends, lyrics_data,
                   output_file, clock, exit_code, runs>>

\* lines 210-211 of the script
ChildLoading ==
    /\ child = "spawned"
    /\ files' = write(files, progress_file_path, Loading)
    /\ child' = "loading"
    /\ UNCHANGED <<prog, pc, words, total_duration, segment_ends, lyrics_data,
                   output_file, clock, exit_code, runs>>

\* lines 213-216 of the script
ChildProcessing ==
    /\ child = "loading"
    /\ files' = write(files, progress_file_path, Processing)
    /\ child' = "processing"
    /\ UNCHANGED <<prog, pc, words, total_duration, segment_ends, lyrics_data,
                   output_file, clock, exit_code, runs>>

\* lines 218-224 of the script: the result, here its words, is saved
ChildSaveResult ==
    /\ child = "processing"
    /\ \E ws \in MainInputs : files' = write(files, result_file_path, ws)
    /\ child' = "saved"
    /\ UNCHANGED <<prog, pc, words, total_duration, segment_ends, lyrics_data,
                   output_file, clock, exit_code, runs>>

\* lines 226-227 of the script, after which the child exits
ChildCompleted ==
    /\ child = "saved"
    /\ files' = write(files, progress_file_path, Completed)
    /\ child' = "completed"
    /\ UNCHANGED <<prog, pc, words, total_duration, segment_ends, lyrics_data,
                   output_file, clock, exit_code, runs>>

\* lines 229-231 of the script: an exception inside the try
ChildError ==
    /\ child \in {"spawned", "loading", "processing", "saved"}
    /\ \E message \in Messages :
          files' = write(files, progress_file_path, ErrorText(message))
    /\ child' = "error"
    /\ UNCHANGED <<prog, pc, words, total_duration, segment_ends, lyrics_data,
                   output_file, clock, exit_code, runs>>

\* the child ends outside the try (import whisper at line 202 fails, or it
\* is killed): nothing is written
ChildCrash ==
    /\ child \in {"spawned", "loading", "processing", "saved"}
    /\ child' = "crashed"
    /\ UNCHANGED <<prog, pc, words, total_duration, segment_ends, lyrics_data,
                   output_file, files, clock, exit_code, runs>>

\* line 260: time.sleep(3)
Sleep ==
    /\ ParseLyricsRuns
    /\ pc = "sleeping"
    /\ pc' = "polling"
    /\ UNCHANGED <<prog, words, total_duration, segment_ends, lyrics_data,
                   output_file, files, clock, exit_code, runs, child>>

\* lines 262-299 and 380-382: one look at the progress file; after the break,
\* the result is read and the three files are removed
Poll ==
    /\ ParseLyricsRuns
    /\ pc = "polling"
    /\ LET status == IF progress_file_path \in DOMAIN files
                     THEN status_of(files[progress_file_path])
                     ELSE <<>>
       IN  IF status = <<"COMPLETED">>
           THEN IF result_file_path \notin DOMAIN files
                THEN pc' = "done" /\ exit_code' = 1
                     /\ UNCHANGED <<words, total_duration, files>>
                ELSE LET ws == files[result_file_path]
                     IN  /\ files' = unlink(files,
                                 {temp_script, progress_file_path, result_file_path})
                         /\ words' = ws
                         /\ IF \E i \in DOMAIN ws : "end" \notin DOMAIN ws[i]
                            THEN pc' = "done" /\ exit_code' = 1
                                 /\ total_duration' = total_duration
                            ELSE pc' = "transcribed" /\ exit_code' = exit_code
                                 /\ total_duration' = duration_of(ws)
           ELSE IF status = <<"ERROR">>
           THEN pc' = "done" /\ exit_code' = 1
                /\ UNCHANGED <<words, total_duration, files>>
           ELSE pc' = "sleeping"
                /\ UNCHANGED <<words, total_duration, files, exit_code>>
    /\ UNCHANGED <<prog, segment_ends, lyrics_data, output_file, clock, runs, child>>

NextMonitor ==
    \/ StartParseLyrics
    \/ InputMissing
    \/ StartTranscription
    \/ ChildLoading
    \/ ChildProcessing
    \/ ChildSaveResult
    \/ ChildCompleted
    \/ ChildError
    \/ ChildCrash
    \/ Sleep
    \/ Poll

\* the parent is a running process: its loop keeps taking steps
SpecMonitor ==
    InitMain /\ [][NextMonitor]_vars /\ WF_vars(Sleep) /\ WF_vars(Poll)

----------------------------------------------------------------------------
(* What the claims speak of *)

ParseLyrics == ParseLyricsRuns
SimpleWhisper == SimpleWhisperRuns
HasDocument == lyrics_data.kind = "document"

RECURSIVE Flatten(_)
Flatten(sentences) ==
    IF sentences = <<>> THEN <<>> ELSE sentences[1].words \o Flatten(Tail(sentences))

Entries == Flatten(lyrics_data.sentences)
GroupSizes == [g \in DOMAIN lyrics_data.sentences |-> Len(lyrics_data.sentences[g].words)]

\* the tokens each program keeps: parse_lyrics those with a non-empty clean_word,
\* simple_whisper those with a non-empty strip()
Cleaned(w) == IF ParseLyrics THEN clean_word(w.word) ELSE strip(w.word, Whitespace)
Survives(w) == Cleaned(w) # <<>>
Survivors == SelectSeq(words, Survives)

WellFormed(w) == "start" \in DOMAIN w /\ "end" \in DOMAIN w

\* flat index of the last entry of each group
GroupEnds ==
    LET sizes == GroupSizes
        sum[g \in 0..Len(sizes)] == IF g = 0 THEN 0 ELSE sum[g - 1] + sizes[g]
    IN  {sum[g] : g \in 1..Len(sizes)}

\* C1. Partition property: in the document of either program, the word texts of
\* the groups, concatenated in order, are exactly the cleaned texts of the tokens
\* the program keeps (those whose cleaned text is not empty), in input order, and
\* no group is empty.
PartitionProperty ==
    HasDocument =>
        /\ [k \in DOMAIN Entries |-> Entries[k].text]
               = [k \in DOMAIN Survivors |-> Cleaned(Survivors[k])]
        /\ \A g \in DOMAIN GroupSizes : GroupSizes[g] > 0

\* C1 witness: parse_lyrics returned several groups and dropped a token
PartitionWitness ==
    /\ ParseLyrics /\ HasDocument
    /\ Len(lyrics_data.sentences) >= 2
    /\ Len(Entries) = 2
    /\ Len(words) = 3

PlainRun(n) == words = LongInput(n)

\* C2 as stated. Length bound: no group of either program has more than 12 words,
\* and 25 plain tokens give groups of 12, 12 and 1.
LengthBoundEverywhere ==
    HasDocument =>
        /\ \A g \in DOMAIN GroupSizes : GroupSizes[g] <= 12
        /\ PlainRun(25) => GroupSizes = <<12, 12, 1>>

\* C2 amended. Length bound of simple_whisper_parser only: no group of its loop
\* has more than 12 words and 25 plain tokens give groups of 12, 12 and 1;
\* words_to_lyrics_data has no length rule and returns the 25 plain tokens as
\* one group of 25.
LengthBoundSimpleWhisper ==
    HasDocument =>
        /\ SimpleWhisper => \A g \in DOMAIN GroupSizes : GroupSizes[g] <= 12
        /\ SimpleWhisper /\ PlainRun(25) => GroupSizes = <<12, 12, 1>>
        /\ ParseLyrics /\ PlainRun(25) => GroupSizes = <<25>>

\* C2 witness: the loop of simple_whisper_parser has split the 25 plain tokens
LengthBoundWitness ==
    /\ SimpleWhisper /\ HasDocument
    /\ PlainRun(25)
    /\ Len(lyrics_data.sentences) = 3

\* C3. Pause sensitivity: for a token that is not the last and to which no
\* punctuation, length or phrase-ending break applies, the group is closed after
\* it exactly when the start of the token that follows it in the sequence, minus
\* its end, exceeds the threshold (0.5 s in detect_sentence_breaks, 0.4 s in
\* simple_whisper_parser).
PauseSensitivity ==
    HasDocument =>
        /\ ParseLyrics =>
              \A i \in 1..Len(words) - 1 :
                  ~has_sentence_punctuation(words[i].word) =>
                      (i \in Range(detect_sentence_breaks(words))
                          <=> words[i + 1].start - words[i].end > 5000)
        /\ SimpleWhisper =>
              LET kept == SelectSeq([i \in DOMAIN words |-> i],
                                    LAMBDA i : Survives(words[i]))
                  Before(k) == {e \in GroupEnds : e < k}
                  InGroup(k) == IF Before(k) = {} THEN k
                                ELSE k - CHOOSE e \in Before(k) :
                                             \A f \in Before(k) : f <= e
              IN  \A k \in 1..Len(kept) - 1 :
                      LET i == kept[k]
                          word_text == Cleaned(words[i])
                      IN  /\ ~ends_with_punctuation(word_text)
                          /\ ~has_phrase_ending(word_text)
                          /\ InGroup(k) < 12
                          /\ "start" \in DOMAIN words[i + 1]
                          => (k \in GroupEnds
                                <=> words[i + 1].start - words[i].end > 4000)

\* C4. Target propagation: in the document of words_to_lyrics_data an entry has
\* target_word = TRUE exactly when its lowercased text is the lowercased cleaned
\* text of some token of the input that meets the selection criteria.
SelectionCriteria(w) ==
    /\ "confidence" \in DOMAIN w
    /\ w.confidence >= 85
    /\ Len(clean_word(w.word)) >= 4
    /\ \A i \in DOMAIN clean_word(w.word) :
           clean_word(w.word)[i] \in Range(LowerCase) \cup Range(UpperCase)
    /\ lower(clean_word(w.word)) \notin FillerWords

TargetPropagation ==
    ParseLyrics /\ HasDocument =>
        \A k \in DOMAIN Entries :
            Entries[k].target_word
                <=> \E i \in DOMAIN words :
                        /\ SelectionCriteria(words[i])
                        /\ lower(clean_word(words[i].word)) = lower(Entries[k].text)

\* C4 witness: an occurrence with low confidence, in a group before the selected
\* occurrence of its word, is flagged
TargetPropagationWitness ==
    /\ ParseLyrics /\ HasDocument
    /\ Len(words) = 2
    /\ ~SelectionCriteria(words[1])
    /\ SelectionCriteria(words[2])
    /\ Len(lyrics_data.sentences) = 2
    /\ lyrics_data.sentences[1].words[1].target_word

\* C5. Selection criteria are conjunctive: identify_target_words returns, in
\* input order, exactly the tokens with confidence >= 0.85, cleaned length >= 4,
\* alphabetic cleaned text outside the filler words; a token without a confidence
\* is never returned.
SelectionConjunctive ==
    ParseLyrics /\ HasDocument =>
        /\ identify_target_words(words) = SelectSeq(words, SelectionCriteria)
        /\ \A w \in Range(identify_target_words(words)) : "confidence" \in DOMAIN w

\* C5 witness: two tokens are returned, a token without confidence and a token
\* failing a lexical criterion are not
SelectionWitness ==
    /\ ParseLyrics /\ HasDocument
    /\ Len(identify_target_words(words)) = 2
    /\ \E i \in DOMAIN words :
           "confidence" \notin DOMAIN words[i] /\ Len(clean_word(words[i].word)) >= 4

\* C6 as stated. Timing metadata with no groups: a document without sentence
\* groups has offset 0.0 and outro 0.0.
NoGroupsZeroOutro ==
    ParseLyrics /\ HasDocument /\ lyrics_data.sentences = <<>> =>
        lyrics_data.offset = 0 /\ lyrics_data.outro = 0

\* C6 amended. A document of words_to_lyrics_data without sentence groups (every
\* token cleans to the empty string) has offset 0.0 and the default outro 3.0,
\* for every total_duration; with no tokens at all words_to_lyrics_data returns
\* None, no document.
NoGroupsDefaultOutro ==
    ParseLyrics /\ pc = "converted" =>
        /\ HasDocument /\ lyrics_data.sentences = <<>> =>
               lyrics_data.offset = 0 /\ lyrics_data.outro = 30000
        /\ words = <<>> <=> lyrics_data = None

\* C6 witness: a document without groups, built with a positive total_duration
NoGroupsWitness ==
    /\ ParseLyrics /\ HasDocument
    /\ lyrics_data.sentences = <<>>
    /\ total_duration > 0

LastEndTime == Entries[Len(Entries)].end_time

\* C7 as stated. Outro formula: with at least one group, outro is
\* max(0, total_duration - end time of the last word), rounded to two decimals,
\* for every total_duration >= 0 (0 giving outro 0), and never negative.
OutroFormula ==
    HasDocument /\ lyrics_data.sentences # <<>> =>
        /\ lyrics_data.outro >= 0
        /\ ParseLyrics =>
               lyrics_data.outro = round2(Max(0, total_duration - LastEndTime))
        /\ SimpleWhisper =>
               lyrics_data.outro = round2(Max(0, max_of(segment_ends) - LastEndTime))

\* C7 amended. With at least one group: for total_duration > 0 the outro of
\* words_to_lyrics_data is max(0, total_duration - end time of the last word),
\* rounded to two decimals; for total_duration = 0 it is the default 3.0; the
\* outro of simple_whisper_parser is the same formula on the largest segment
\* end; outro is never negative.
OutroFormulaPositive ==
    HasDocument /\ lyrics_data.sentences # <<>> =>
        /\ lyrics_data.outro >= 0
        /\ ParseLyrics /\ total_duration > 0 =>
               lyrics_data.outro = round2(Max(0, total_duration - LastEndTime))
        /\ ParseLyrics /\ total_duration = 0 => lyrics_data.outro = 30000
        /\ SimpleWhisper =>
               lyrics_data.outro = round2(Max(0, max_of(segment_ends) - LastEndTime))

\* C7 witness: a document with a group, built with total_duration = 0
OutroWitness ==
    /\ ParseLyrics /\ HasDocument
    /\ lyrics_data.sentences # <<>>
    /\ total_duration = 0

Converted == lyrics_data # Unset

Rounded(t) == IF ParseLyrics THEN round2(t) ELSE round3(t)

Ended == pc = "done" /\ Converted /\ lyrics_data # KeyError
Saved == output_file \in DOMAIN files /\ files[output_file].data = lyrics_data

Kept(f) == f \in DOMAIN files' /\ files'[f] = files[f]

----------------------------------------------------------------------------
(* The monitoring loop of transcribe_to_json *)

Monitoring == ParseLyrics /\ pc \in {"sleeping", "polling"}

\* C11: once the child has written its COMPLETED status and the result file,
\* the monitoring loop eventually exits (after which the document is written
\* and main ends with exit code 0).  The loop's exit is the first thing the
\* claim promises; the code splits the file's text on a backslash followed
\* by n, never on the newline the child wrote, so the status it compares is
\* the whole text and the loop goes on.
SuccessTerminates ==
    (Monitoring /\ child = "completed") ~> ~Monitoring

\* C12: if the child fails, by writing an ERROR status or by ending without
\* writing COMPLETED or ERROR, main eventually exits with code 1; it never
\* waits forever.
FailureIsTerminal ==
    (Monitoring /\ child \in {"error", "crashed"}) ~> (pc = "done" /\ exit_code = 1)


----------------------------------------------------------------------------
(* Discarded tokens *)

\* the document either program makes of the tokens ws in this run
DocumentOf(ws) ==
    IF ParseLyrics THEN words_to_lyrics_data(ws, AudioFile, total_duration)
    ELSE simple_lyrics_data(ws, segment_ends, clock)

GroupsOf(data) == IF data.kind = "document" THEN data.sentences ELSE <<>>

\* the positions in words of the tokens the program keeps
KeptPositions == SelectSeq([i \in DOMAIN words |-> i], LAMBDA i : Survives(words[i]))

\* every discarded token stands before the first or after the last kept token
DiscardedAtEdges ==
    \A i, j, k \in DOMAIN words :
        i < j /\ j < k /\ Survives(words[i]) /\ Survives(words[k]) => Survives(words[j])

\* C13 as stated. Discarded tokens do not participate: the groups made of an
\* input are the groups made of the same input with every token whose cleaned
\* text is empty removed beforehand.
DiscardedIgnored ==
    HasDocument => lyrics_data.sentences = GroupsOf(DocumentOf(Survivors))

\* C13 amended. A discarded token yields no entry and no group of its own, and
\* when every discarded token stands before the first or after the last kept
\* token the groups are those of the input without them.  Between two kept
\* tokens a discarded token takes part in the segmentation: in parse_lyrics the
\* breaks are found on the whole token list, so two consecutive kept tokens are
\* in different groups exactly when a break index of that list lies at or after
\* the first and before the second.
DiscardedParticipate ==
    HasDocument =>
        /\ DiscardedAtEdges => lyrics_data.sentences = GroupsOf(DocumentOf(Survivors))
        /\ \A g \in DOMAIN GroupSizes : GroupSizes[g] > 0
        /\ Len(Entries) = Len(KeptPositions)
        /\ ParseLyrics =>
              \A k \in 1..Len(KeptPositions) - 1 :
                  k \in GroupEnds <=>
                      \E b \in Range(detect_sentence_breaks(words)) :
                          KeptPositions[k] <= b /\ b < KeptPositions[k + 1]

\* C13 witness: in parse_lyrics a discarded token with a mark, between two kept
\* tokens less than a pause apart, has closed the group of the first
DiscardedWitness ==
    /\ ParseLyrics /\ HasDocument
    /\ Len(words) = 3
    /\ KeptPositions = <<1, 3>>
    /\ has_sentence_punctuation(words[2].word)
    /\ ~has_sentence_punctuation(words[1].word)
    /\ words[3].start - words[1].end <= 5000
    /\ Len(lyrics_data.sentences) = 2
    /\ Len(GroupsOf(DocumentOf(Survivors))) = 1


----------------------------------------------------------------------------
(* Punctuation breaks *)

\* the text of a token without its surrounding whitespace ends with one of marks
EndsWith(w, marks) ==
    LET text == strip(w.word, Whitespace)
    IN  text # <<>> /\ text[Len(text)] \in marks

\* the group of the k-th kept token is closed after it
ClosedAfter(k) == k \in GroupEnds

\* the number of entries of its group up to the k-th kept token
PlaceInGroup(k) ==
    LET before == {e \in GroupEnds : e < k}
    IN  IF before = {} THEN k
        ELSE k - CHOOSE e \in before : \A f \in before : f <= e

\* C14. Punctuation break only at the end of the text: a token that is not
\* the last, with no pause above the threshold after it (and, in
\* simple_whisper_parser, no length or phrase-ending break), closes its group
\* exactly when its text ends with a mark of the program's set; a mark in a
\* non-final position does not close the group.
PunctuationAtEndOnly ==
    HasDocument =>
        /\ ParseLyrics =>
              \A i \in 1..Len(words) - 1 :
                  words[i + 1].start - words[i].end <= 5000 =>
                      (i \in Range(detect_sentence_breaks(words))
                          <=> EndsWith(words[i], SentencePunctuation))
        /\ SimpleWhisper =>
              \A k \in 1..Len(KeptPositions) - 1 :
                  LET i == KeptPositions[k]
                      next == words[index(words, words[i]) + 1]
                  IN  /\ next.start - words[i].end <= 4000
                      /\ words[i + 1].start - words[i].end <= 4000
                      /\ PlaceInGroup(k) < 12
                      /\ ~has_phrase_ending(Cleaned(words[i]))
                      => (ClosedAfter(k) <=> EndsWith(words[i], BreakPunctuation))


----------------------------------------------------------------------------
(* Rounding *)

\* the end of the last token the program keeps, as the transcription gave it
LastTokenEnd == Survivors[Len(Survivors)].end

\* the duration the outro is measured against
SongEnd == IF ParseLyrics THEN total_duration ELSE max_of(segment_ends)

\* the runs in which the outro is computed from the last end time
OutroComputed ==
    /\ HasDocument
    /\ lyrics_data.sentences # <<>>
    /\ ParseLyrics => total_duration > 0

\* C15 as stated. Rounding only at emission: the emitted outro is
\* round2(max(0, total_duration - e)) with e the unrounded end time of the last
\* surviving token.
RoundingAtEmission ==
    OutroComputed => lyrics_data.outro = round2(Max(0, SongEnd - LastTokenEnd))

\* C15 amended. The subtraction uses the end time already rounded for
\* emission: the emitted outro is round2(max(0, total_duration - E)) with E the
\* emitted end time of the last surviving token, rounded to two decimals by
\* words_to_lyrics_data (for total_duration > 0) and to three by
\* simple_whisper_parser (against the largest segment end).
RoundingBeforeSubtraction ==
    OutroComputed =>
        lyrics_data.outro = round2(Max(0, SongEnd - Rounded(LastTokenEnd)))

\* C15 witness: a document of words_to_lyrics_data whose outro is not the one
\* the unrounded end time gives
RoundingWitness ==
    /\ ParseLyrics /\ OutroComputed
    /\ Rounded(LastTokenEnd) # LastTokenEnd
    /\ lyrics_data.outro # round2(Max(0, SongEnd - LastTokenEnd))


----------------------------------------------------------------------------
(* The texts of the entries *)

Bare(text, chars) == text # <<>> /\ text[1] \notin chars /\ text[Len(text)] \notin chars

----------------------------------------------------------------------------
(* The summaries of words_to_lyrics_data *)

\* the i-th summary describes the i-th group
Describes(summary, group) ==
    /\ summary.text = join([k \in DOMAIN group.words |-> group.words[k].text])
    /\ summary.start_time = group.words[1].start_time
    /\ summary.end_time = group.words[Len(group.words)].end_time

\* C17. Summary alignment: in every document of words_to_lyrics_data,
\* full_sentence and sentences have the same length, and for every index the
\* text of the summary is the single-space join of the group's word texts in
\* order, its start_time the start_time of the group's first word and its
\* end_time the end_time of the group's last word.
SummaryAlignment ==
    ParseLyrics /\ HasDocument =>
        /\ Len(lyrics_data.full_sentence) = Len(lyrics_data.sentences)
        /\ \A i \in DOMAIN lyrics_data.sentences :
              Describes(lyrics_data.full_sentence[i], lyrics_data.sentences[i])

\* C17 witness: two groups, the first of two words, and an end time that
\* rounding changes
SummaryWitness ==
    /\ ParseLyrics /\ HasDocument
    /\ GroupSizes = <<2, 1>>
    /\ \E k \in DOMAIN Entries : Entries[k].end_time # Survivors[k].end
    /\ Len(lyrics_data.full_sentence[1].text) > Len(Entries[1].text) + Len(Entries[2].text)

====
